---- MODULE Spec2Model ----
(***************************************************************************)
(* Model of src/nike_monitor.py (class NikeMonitor): the listing/detail    *)
(* extraction, the match filter, the change detector, the notification     *)
(* formatter and dispatcher, and the run loop.                             *)
(*                                                                         *)
(* Text values whose characters the code inspects (names, links) are       *)
(* sequences of one-character strings; other text (prices) is a string.    *)
(* Size labels are naturals whose order stands for Python's string order   *)
(* of the labels, which is all sorted() reads.  Timestamps are left out of *)
(* messages.  The method bodies of format_notification and should_notify   *)
(* are read with the indentation of the rest of the class (as written,     *)
(* lines 278-280 and 301-303 are indented one level short of it).          *)
(* check_interval is a positive number, so that time.sleep accepts it.     *)
(***************************************************************************)
EXTENDS Naturals, Sequences, FiniteSets, TLC

VARIABLES
    config,      \* self.config, loaded once in __init__
    pc,          \* position of run()
    cards,       \* product_cards still to be visited by the for loop
    detailed_info, \* what get_product_details returned for the last match
    products,    \* the product list of the cycle
    file,        \* last_notification.json
    message,     \* notification_message of the cycle
    calls,       \* channel methods invoked in the cycle, in order
    slept,       \* argument of the last time.sleep
    decision,    \* what should_notify did in the cycle
    prev,        \* the previous cycle's should_notify call
    hist,        \* product set last left persisted, and empty cycles since
    mName,       \* argument of a direct matches_search_terms call
    mResult      \* its return value

vars == <<config, pc, cards, detailed_info, products, file, message, calls,
          slept, decision, prev, hist, mName, mResult>>

----------------------------------------------------------------------------
(* Bounds of the model *)

MaxNameLen == 3
MaxTerms == 2
MaxCards == 2
MaxProducts == 2

----------------------------------------------------------------------------
(* Text *)

Alphabet == {"a", "A", "b"}

\* str.lower() on one character
Lower(c) == IF c = "A" THEN "a" ELSE c

\* str.lower()
LowerStr(s) == [i \in 1..Len(s) |-> Lower(s[i])]

RECURSIVE FindFrom(_, _, _)
\* the scan of `sub in s`: first offset k >= start where s[k+1..k+Len(sub)] = sub
FindFrom(sub, s, k) ==
    IF k + Len(sub) > Len(s) THEN FALSE
    ELSE IF SubSeq(s, k + 1, k + Len(sub)) = sub THEN TRUE
    ELSE FindFrom(sub, s, k + 1)

\* Python's `sub in s` on strings
Contains(sub, s) == FindFrom(sub, s, 0)

\* the mutant of TermPresent: the term is not lower-cased
TermPresentNoLower(term, product_lower) == Contains(term, product_lower)

\* `term.lower() in product_lower` (line 182)
TermPresent(term, product_lower) == Contains(LowerStr(term), product_lower)

RECURSIVE AllTermsFrom(_, _, _)
\* the for loop of matches_search_terms, from term i on
AllTermsFrom(search_terms, i, product_lower) ==
    IF i > Len(search_terms) THEN TRUE
    ELSE IF ~TermPresent(search_terms[i], product_lower) THEN FALSE
    ELSE AllTermsFrom(search_terms, i + 1, product_lower)

\* NikeMonitor.matches_search_terms with self.config['search_terms'] = search_terms
matches_search_terms(product_name, search_terms) ==
    IF product_name = <<>> THEN FALSE
    ELSE AllTermsFrom(search_terms, 1, LowerStr(product_name))

RECURSIVE LastSegmentFrom(_, _)
\* link.split('/')[-1]: the characters after the last "/"
LastSegmentFrom(link, i) ==
    IF i = 0 THEN link
    ELSE IF link[i] = "/" THEN SubSeq(link, i + 1, Len(link))
    ELSE LastSegmentFrom(link, i - 1)

LastSegment(link) == LastSegmentFrom(link, Len(link))

RECURSIVE Insert(_, _)
Insert(x, s) ==
    IF s = <<>> THEN <<x>>
    ELSE IF x <= Head(s) THEN <<x>> \o s
    ELSE <<Head(s)>> \o Insert(x, Tail(s))

RECURSIVE sorted(_)
\* sorted(product['sizes'])
sorted(s) == IF s = <<>> THEN <<>> ELSE Insert(Head(s), sorted(Tail(s)))

Min(a, b) == IF a <= b THEN a ELSE b

SeqsUpTo(S, n) == UNION {[1..k -> S] : k \in 0..n}

----------------------------------------------------------------------------
(* Values read from the network, the configuration and the state file *)

NameAB == <<"a", "b">>
NameBA == <<"b", "A">>
NameAA == <<"a", "a">>

LinkT1 == <<"/", "t", "/", "1">>
LinkU1 == <<"/", "u", "/", "1">>
LinkT2 == <<"/", "t", "/", "2">>

\* search_terms of the configuration the loop runs with: two terms, as the
\* default of load_config has several, all of which must be present
LoopTerms == << <<"A">>, <<"b">> >>

\* a product card of the listing page, as the for loop reads it: the name,
\* link and price it extracts, or an exception while extracting (broken)
Card(n, l, p, x) == [name |-> n, link |-> l, price |-> p, broken |-> x]

Catalogue ==
    { Card(NameAB, LinkT1, "$100", FALSE),
      Card(NameBA, LinkT2, "", FALSE),
      Card(NameAA, LinkT1, "$100", FALSE),
      Card(NameAB, <<>>, "$100", FALSE),
      Card(NameAB, LinkT1, "$100", TRUE) }

Pages == SeqsUpTo(Catalogue, MaxCards)

\* a size button of the detail page: its text (0: no text) and its disabled mark
Button(t, d) == [text |-> t, disabled |-> d]

\* what requests.get of a detail page yields: an exception, a status other
\* than 200, or a page with a price ("": none that the pattern matches), size
\* buttons and an add-to-bag button (none, disabled or enabled)
Response(s, p, b, g) == [status |-> s, price |-> p, buttons |-> b, bag |-> g]

DetailResponses ==
    { Response("exception", "", <<>>, "none"),
      Response("non200", "", <<>>, "none"),
      Response("ok", "", <<>>, "none"),
      Response("ok", "", <<>>, "disabled"),
      Response("ok", "$90", <<>>, "enabled"),
      Response("ok", "", <<Button(2, FALSE), Button(1, FALSE)>>, "none"),
      Response("ok", "$90",
               <<Button(1, FALSE), Button(3, TRUE), Button(0, FALSE), Button(2, FALSE)>>,
               "disabled") }

\* what requests.get of the listing page yields
ListingResponses ==
    { [status |-> s, page |-> <<>>] : s \in {"exception", "non200"} }
    \cup { [status |-> "ok", page |-> p] : p \in Pages }

\* last_notification.json: missing, not decodable as JSON (JSONDecodeError),
\* not readable (an OSError other than FileNotFoundError, or bytes that are
\* not UTF-8), or a JSON object
EmptyMap == [k \in {} |-> 0]

FileOf(k, m) == [kind |-> k, content |-> m]

InitFiles == { FileOf(k, EmptyMap) : k \in {"missing", "badjson", "unreadable", "valid"} }

\* how the write of lines 327-328 ends: done, open() fails, or the dump fails
\* after open() truncated the file
WriteOutcomes == {"ok", "open_fail", "partial"}

\* a configuration: single_run, check_interval (seconds, positive), and per
\* channel whether its block is absent or disabled, enabled without the
\* credentials it needs, or enabled
Cfg(sr, ci, t, e, d) ==
    [ single_run |-> sr, check_interval |-> ci, search_terms |-> LoopTerms,
      telegram |-> t, email |-> e, discord |-> d ]

Configs ==
    { Cfg(FALSE, 30, "disabled", "enabled", "enabled"),
      Cfg(FALSE, 600, "enabled", "disabled", "nourl"),
      Cfg(TRUE, 30, "nocreds", "enabled", "disabled") }

----------------------------------------------------------------------------
(* get_product_details and the product record *)

EmptyDetails == [keys |-> {}, price |-> "", sizes |-> <<>>, in_stock |-> FALSE]

\* no call of get_product_details has returned yet
NoDetails == [keys |-> {"unset"}, price |-> "", sizes |-> <<>>, in_stock |-> FALSE]

\* dict.get(key, default)
Get(d, key, default) == IF key \in d.keys THEN d[key] ELSE default

RECURSIVE EnabledSizes(_)
\* lines 152-156: the text of every button that is not disabled and has text
EnabledSizes(buttons) ==
    IF buttons = <<>> THEN <<>>
    ELSE IF ~Head(buttons).disabled /\ Head(buttons).text # 0
         THEN <<Head(buttons).text>> \o EnabledSizes(Tail(buttons))
         ELSE EnabledSizes(Tail(buttons))

\* NikeMonitor.get_product_details; requests.get('') raises (no schema)
get_product_details(product_url, resp) ==
    IF product_url = <<>> \/ resp.status = "exception" THEN EmptyDetails
    ELSE IF resp.status # "ok" THEN EmptyDetails
    ELSE LET sizes == EnabledSizes(resp.buttons)
         IN [ keys |-> {"sizes", "in_stock"} \cup (IF resp.price # "" THEN {"price"} ELSE {}),
              price |-> resp.price,
              sizes |-> sizes,
              in_stock |-> (Len(sizes) > 0) \/ resp.bag = "enabled" ]

\* lines 109-115
ProductInfo(card, details) ==
    [ name |-> card.name,
      price |-> IF card.price # "" THEN card.price ELSE Get(details, "price", "N/A"),
      link |-> card.link,
      sizes |-> Get(details, "sizes", <<>>),
      in_stock |-> Get(details, "in_stock", FALSE) ]

\* the mutant of Retained: every match is kept
RetainedAlways(product_info) == TRUE

\* line 117
Retained(product_info) == product_info.in_stock \/ product_info.sizes # <<>>

----------------------------------------------------------------------------
(* should_notify *)

\* line 315
ProductId(product) ==
    IF product.link # <<>> THEN LastSegment(product.link) ELSE product.name

\* lines 316-321
Snapshot(product) ==
    [ name |-> product.name,
      price |-> product.price,
      sizes |-> sorted(product.sizes),
      in_stock |-> product.in_stock ]

RECURSIVE CurrentStateFrom(_, _, _)
\* the loop of lines 313-321: a later product replaces an earlier one of the
\* same id
CurrentStateFrom(ps, i, acc) ==
    IF i > Len(ps) THEN acc
    ELSE CurrentStateFrom(ps, i + 1,
             (ProductId(ps[i]) :> Snapshot(ps[i])) @@ acc)

CurrentState(ps) == CurrentStateFrom(ps, 1, EmptyMap)

\* lines 306-310: only FileNotFoundError and JSONDecodeError are caught
LoadState(f) ==
    IF f.kind = "unreadable" THEN [raised |-> TRUE, last_state |-> EmptyMap]
    ELSE IF f.kind = "valid" THEN [raised |-> FALSE, last_state |-> f.content]
    ELSE [raised |-> FALSE, last_state |-> EmptyMap]

\* the mutant of SaveState: the new entries are merged into the old state
SaveStateMerged(f, last_state, current_state, w) ==
    IF w = "ok" THEN FileOf("valid", current_state @@ last_state)
    ELSE IF w = "partial" THEN FileOf("badjson", EmptyMap)
    ELSE f

\* lines 326-330: json.dump of current_state alone; an error is logged
SaveState(f, last_state, current_state, w) ==
    IF w = "ok" THEN FileOf("valid", current_state)
    ELSE IF w = "partial" THEN FileOf("badjson", EmptyMap)
    ELSE f

\* the mutant of StateChanged: always notify
StateChangedAlways(current_state, last_state) == TRUE

\* line 324
StateChanged(current_state, last_state) == current_state # last_state

\* the mutant of EmptyListNotifies: the empty list goes through the comparison
EmptyListSilent(ps) == FALSE

\* lines 302-303
EmptyListNotifies(ps) == ps = <<>>

\* NikeMonitor.should_notify: its return value ("raise": an exception
\* leaves it), the file afterwards, and whether it wrote
should_notify(ps, f, w) ==
    IF EmptyListNotifies(ps)
    THEN [ret |-> "true", file |-> f, wrote |-> "none"]
    ELSE LET loaded == LoadState(f)
             current_state == CurrentState(ps)
         IN IF loaded.raised
            THEN [ret |-> "raise", file |-> f, wrote |-> "none"]
            ELSE IF StateChanged(current_state, loaded.last_state)
            THEN [ ret |-> "true",
                   file |-> SaveState(f, loaded.last_state, current_state, w),
                   wrote |-> IF w = "ok" THEN "ok" ELSE "failed" ]
            ELSE [ret |-> "false", file |-> f, wrote |-> "none"]

----------------------------------------------------------------------------
(* format_notification and the channels *)

\* lines 284-296: one block per product
Block(product) ==
    [ name |-> product.name,
      price |-> product.price,
      sizes |-> product.sizes,
      link |-> product.link ]

\* NikeMonitor.format_notification
format_notification(ps) ==
    IF ps = <<>>
    THEN [kind |-> "absence", blocks |-> <<>>, markup |-> TRUE]
    ELSE [kind |-> "alert", blocks |-> [i \in 1..Len(ps) |-> Block(ps[i])], markup |-> TRUE]

\* line 360: the ** marks and the two emoji are removed for the e-mail
StripMarkup(msg) == [msg EXCEPT !.markup = FALSE]

\* what the remote end of a channel does with a request
ChannelResponses == {"ok", "status_error", "exception"}

\* the mutant of Guarded: an exception of the request leaves the method
GuardedNot(r) ==
    IF r = "ok" THEN "sent" ELSE IF r = "exception" THEN "raise" ELSE "failed"

\* the try/except Exception around each channel's body: a failing status and
\* an exception both end in `return False`
Guarded(r) == IF r = "ok" THEN "sent" ELSE "failed"

\* NikeMonitor.send_telegram_message: "skipped" (returns False before any
\* request), "sent" (True), "failed" (False after a request or an exception)
send_telegram_message(cfg, r) ==
    IF cfg.telegram = "disabled" THEN "skipped"
    ELSE IF cfg.telegram = "nocreds" THEN "skipped"
    ELSE Guarded(r)

\* NikeMonitor.send_email_notification
send_email_notification(cfg, r) ==
    IF cfg.email = "disabled" THEN "skipped"
    ELSE Guarded(r)

\* NikeMonitor.send_discord_message
send_discord_message(cfg, r) ==
    IF cfg.discord = "disabled" THEN "skipped"
    ELSE IF cfg.discord = "nourl" THEN "skipped"
    ELSE Guarded(r)

Call(c, m, o) == [channel |-> c, msg |-> m, outcome |-> o]

----------------------------------------------------------------------------
(* The run loop *)

ErrorSleepCap == 300

NoMessage == [kind |-> "none", blocks |-> <<>>, markup |-> TRUE]

NoDecision ==
    [ ret |-> "none", wrote |-> "none", before |-> FileOf("none", EmptyMap),
      repeat |-> FALSE, prevKept |-> FALSE, afterGap |-> FALSE ]

NoPrev == [kind |-> "none", snap |-> EmptyMap, kept |-> FALSE]

NoHist == [phase |-> "none", snap |-> EmptyMap]

\* the positions inside the try block of run(), and those inside its
\* `except Exception` handler
TryStates ==
    {"checking", "filtering", "detailing", "deciding",
     "telegram", "email", "discord", "cycle_end", "sleeping"}

HandlerStates == {"except", "errsleep"}

Init ==
    /\ config \in Configs
    /\ pc = "checking"
    /\ cards = <<>>
    /\ detailed_info = NoDetails
    /\ products = <<>>
    /\ file \in InitFiles
    /\ message = NoMessage
    /\ calls = <<>>
    /\ slept = 0
    /\ decision = NoDecision
    /\ prev = NoPrev
    /\ hist = NoHist
    /\ mName = <<>>
    /\ mResult = FALSE

\* lines 345-346 and 60-76: a new cycle starts with the listing request
Check ==
    /\ pc = "checking"
    /\ \E resp \in ListingResponses :
          IF resp.status = "ok"
          THEN cards' = resp.page /\ pc' = "filtering"
          ELSE cards' = <<>> /\ pc' = "deciding"
    /\ products' = <<>>
    /\ UNCHANGED <<config, detailed_info, file, message, calls, slept,
                   decision, prev, hist, mName, mResult>>

\* line 125: the for loop is over and check_nike_availability returns
ReturnProducts ==
    /\ pc = "filtering"
    /\ cards = <<>>
    /\ pc' = "deciding"
    /\ detailed_info' = NoDetails
    /\ UNCHANGED <<config, cards, products, file, message, calls, slept,
                   decision, prev, hist, mName, mResult>>

\* lines 105 and 121-123: the card does not match, or reading it raised
SkipCard ==
    /\ pc = "filtering"
    /\ cards # <<>>
    /\ Head(cards).broken \/ ~matches_search_terms(Head(cards).name, config.search_terms)
    /\ cards' = Tail(cards)
    /\ UNCHANGED <<config, pc, detailed_info, products, file, message, calls, slept,
                   decision, prev, hist, mName, mResult>>

\* line 105: the card matches
MatchCard ==
    /\ pc = "filtering"
    /\ cards # <<>>
    /\ ~Head(cards).broken
    /\ matches_search_terms(Head(cards).name, config.search_terms)
    /\ pc' = "detailing"
    /\ UNCHANGED <<config, cards, detailed_info, products, file, message, calls, slept,
                   decision, prev, hist, mName, mResult>>

\* lines 107-119
Detail ==
    /\ pc = "detailing"
    /\ \E resp \in DetailResponses :
          LET details == get_product_details(Head(cards).link, resp)
              product_info == ProductInfo(Head(cards), details)
          IN /\ detailed_info' = details
             /\ products' = IF Retained(product_info)
                            THEN Append(products, product_info)
                            ELSE products
    /\ cards' = Tail(cards)
    /\ pc' = "filtering"
    /\ UNCHANGED <<config, file, message, calls, slept, decision, prev, hist,
                   mName, mResult>>

\* the record of a should_notify call on ps with the file f, for the claims
\* about successive cycles
Decided(ps, f, r) ==
    [ ret |-> r.ret, wrote |-> r.wrote, before |-> f,
      repeat |-> ps # <<>> /\ prev.kind = "found" /\ prev.snap = CurrentState(ps),
      prevKept |-> prev.kept,
      afterGap |-> ps # <<>> /\ hist.phase = "gap" /\ hist.snap = CurrentState(ps) ]

KeptBy(ps, r) ==
    ps # <<>> /\ r.ret # "raise" /\ r.file = FileOf("valid", CurrentState(ps))

PrevAfter(ps, r) ==
    IF ps = <<>> THEN [kind |-> "empty", snap |-> EmptyMap, kept |-> FALSE]
    ELSE [kind |-> "found", snap |-> CurrentState(ps), kept |-> KeptBy(ps, r)]

HistAfter(ps, r) ==
    IF ps = <<>>
    THEN IF hist.phase \in {"kept", "gap"} THEN [hist EXCEPT !.phase = "gap"] ELSE hist
    ELSE IF KeptBy(ps, r) THEN [phase |-> "kept", snap |-> CurrentState(ps)]
    ELSE NoHist

\* lines 348-351 and 364-365: should_notify, then format_notification
Decide ==
    /\ pc = "deciding"
    /\ \E w \in WriteOutcomes :
          LET r == should_notify(products, file, w)
          IN /\ file' = r.file
             /\ decision' = Decided(products, file, r)
             /\ prev' = PrevAfter(products, r)
             /\ hist' = HistAfter(products, r)
             /\ IF r.ret = "raise" THEN pc' = "except" /\ message' = message
                ELSE IF r.ret = "true"
                THEN pc' = "telegram" /\ message' = format_notification(products)
                ELSE pc' = "cycle_end" /\ message' = message
    /\ UNCHANGED <<config, cards, detailed_info, products, calls, slept, mName, mResult>>

\* where run() continues after a channel method: an exception leaving the
\* method would reach the handler of line 377
AfterSend(outcome, next) == IF outcome = "raise" THEN "except" ELSE next

\* line 355
Telegram ==
    /\ pc = "telegram"
    /\ \E r \in ChannelResponses :
          LET o == send_telegram_message(config, r)
          IN /\ calls' = Append(calls, Call("telegram", message, o))
             /\ pc' = AfterSend(o, "email")
    /\ UNCHANGED <<config, cards, detailed_info, products, file, message, slept, decision,
                   prev, hist, mName, mResult>>

\* lines 358-361
Email ==
    /\ pc = "email"
    /\ \E r \in ChannelResponses :
          LET o == send_email_notification(config, r)
          IN /\ calls' = Append(calls, Call("email", StripMarkup(message), o))
             /\ pc' = AfterSend(o, "discord")
    /\ UNCHANGED <<config, cards, detailed_info, products, file, message, slept, decision,
                   prev, hist, mName, mResult>>

\* line 362
Discord ==
    /\ pc = "discord"
    /\ \E r \in ChannelResponses :
          LET o == send_discord_message(config, r)
          IN /\ calls' = Append(calls, Call("discord", message, o))
             /\ pc' = AfterSend(o, "cycle_end")
    /\ UNCHANGED <<config, cards, detailed_info, products, file, message, slept, decision,
                   prev, hist, mName, mResult>>

\* the cycle is over: its locals are dead until the next cycle assigns
\* them, and the record of what it did is closed
CycleOver ==
    /\ cards' = <<>>
    /\ detailed_info' = NoDetails
    /\ products' = <<>>
    /\ message' = NoMessage
    /\ calls' = <<>>
    /\ decision' = NoDecision

\* run() returns: of its state only the file remains
Returned ==
    /\ CycleOver
    /\ slept' = 0
    /\ prev' = NoPrev
    /\ hist' = NoHist
    /\ UNCHANGED <<config, file, mName, mResult>>

\* lines 367-369: single run, the loop breaks
Break ==
    /\ pc = "cycle_end"
    /\ config.single_run
    /\ pc' = "done"
    /\ Returned

\* lines 371-372
Sleep ==
    /\ pc = "cycle_end"
    /\ ~config.single_run
    /\ pc' = "sleeping"
    /\ slept' = config.check_interval
    /\ CycleOver
    /\ UNCHANGED <<config, file, prev, hist, mName, mResult>>

\* time.sleep(check_interval) returns
Wake ==
    /\ pc = "sleeping"
    /\ pc' = "checking"
    /\ slept' = 0
    /\ UNCHANGED <<config, cards, detailed_info, products, file, message, calls,
                   decision, prev, hist, mName, mResult>>

\* the mutant of ErrorDelay: the configured interval, uncapped
ErrorDelayUncapped(check_interval) == check_interval

\* line 381
ErrorDelay(check_interval) == Min(check_interval, ErrorSleepCap)

\* lines 377-380: single run, the loop breaks
ExceptBreak ==
    /\ pc = "except"
    /\ config.single_run
    /\ pc' = "done"
    /\ Returned

\* lines 377-381
ExceptSleep ==
    /\ pc = "except"
    /\ ~config.single_run
    /\ pc' = "errsleep"
    /\ slept' = ErrorDelay(config.check_interval)
    /\ CycleOver
    /\ UNCHANGED <<config, file, prev, hist, mName, mResult>>

\* the sleep of line 381 returns
WakeAfterError ==
    /\ pc = "errsleep"
    /\ pc' = "checking"
    /\ slept' = 0
    /\ UNCHANGED <<config, cards, detailed_info, products, file, message, calls,
                   decision, prev, hist, mName, mResult>>

\* KeyboardInterrupt inside the try block: lines 374-376, run() returns
InterruptInTry ==
    /\ pc \in TryStates
    /\ pc' = "stopped"
    /\ Returned

\* KeyboardInterrupt between the open() of line 327, which truncates the
\* file, and the end of json.dump: `except Exception` (line 329) does not
\* catch it, the handler of line 374 does
InterruptInWrite ==
    /\ pc = "deciding"
    /\ products # <<>>
    /\ ~LoadState(file).raised
    /\ StateChanged(CurrentState(products), LoadState(file).last_state)
    /\ pc' = "stopped"
    /\ file' = FileOf("badjson", EmptyMap)
    /\ CycleOver
    /\ slept' = 0
    /\ prev' = NoPrev
    /\ hist' = NoHist
    /\ UNCHANGED <<config, mName, mResult>>

\* KeyboardInterrupt inside the `except Exception` handler (lines 378-381):
\* no clause of the same try statement catches it, it leaves run()
InterruptInHandler ==
    /\ pc \in HandlerStates
    /\ pc' = "escaped"
    /\ Returned

Next ==
    \/ Check
    \/ ReturnProducts
    \/ SkipCard
    \/ MatchCard
    \/ Detail
    \/ Decide
    \/ Telegram
    \/ Email
    \/ Discord
    \/ Break
    \/ Sleep
    \/ Wake
    \/ ExceptBreak
    \/ ExceptSleep
    \/ WakeAfterError
    \/ InterruptInTry
    \/ InterruptInWrite
    \/ InterruptInHandler

Spec == Init /\ [][Next]_vars

----------------------------------------------------------------------------
(* Direct calls of matches_search_terms, over all names and term lists *)

Names == SeqsUpTo(Alphabet, MaxNameLen)

\* the terms a configuration may list; "" is a term like any other
Terms == {<<>>, <<"a">>, <<"A">>, <<"b">>, <<"A", "b">>, <<"b", "a">>, <<"a", "A">>}

TermLists == SeqsUpTo(Terms, MaxTerms)

Quiet ==
    /\ cards = <<>>
    /\ detailed_info = NoDetails
    /\ products = <<>>
    /\ message = NoMessage
    /\ calls = <<>>
    /\ slept = 0
    /\ decision = NoDecision
    /\ prev = NoPrev
    /\ hist = NoHist
    /\ mName = <<>>
    /\ mResult = FALSE

InitMatch ==
    /\ \E T \in TermLists :
          config = [Cfg(TRUE, 30, "disabled", "disabled", "disabled")
                        EXCEPT !.search_terms = T]
    /\ pc = "unit"
    /\ file = FileOf("missing", EmptyMap)
    /\ Quiet

\* a call of matches_search_terms(n)
CallMatch ==
    /\ pc \in {"unit", "returned"}
    /\ \E n \in Names :
          /\ mName' = n
          /\ mResult' = matches_search_terms(n, config.search_terms)
    /\ pc' = "returned"
    /\ UNCHANGED <<config, cards, detailed_info, products, file, message, calls,
                   slept, decision, prev, hist>>

NextMatch == CallMatch

SpecMatch == InitMatch /\ [][NextMatch]_vars

----------------------------------------------------------------------------
(* Direct calls of should_notify, over all product lists of the data model *)

Product(n, p, l, s, i) ==
    [name |-> n, price |-> p, link |-> l, sizes |-> s, in_stock |-> i]

\* products as the data model allows them: the link may be empty, two links
\* may end in the same segment, the sizes may be in any order
UnitProducts ==
    { Product(NameAB, "$100", LinkT1, <<2, 1>>, TRUE),
      Product(NameBA, "$90", LinkU1, <<>>, TRUE),
      Product(NameBA, "N/A", LinkT2, <<1>>, TRUE),
      Product(NameAB, "$100", <<>>, <<1, 2>>, TRUE) }

ProductLists == SeqsUpTo(UnitProducts, MaxProducts)

InitNotify ==
    /\ config = Cfg(TRUE, 30, "disabled", "disabled", "disabled")
    /\ pc = "unit"
    /\ file \in InitFiles
    /\ Quiet

\* a call of should_notify(ps)
CallShouldNotify ==
    /\ pc \in {"unit", "returned"}
    /\ \E ps \in ProductLists, w \in WriteOutcomes :
          LET r == should_notify(ps, file, w)
          IN /\ products' = ps
             /\ file' = r.file
             /\ decision' = Decided(ps, file, r)
    /\ pc' = "returned"
    /\ UNCHANGED <<config, cards, detailed_info, message, calls, slept, prev, hist,
                   mName, mResult>>

NextNotify == CallShouldNotify

SpecNotify == InitNotify /\ [][NextNotify]_vars

----------------------------------------------------------------------------
(* What the claims speak of, stated without the operators of the model *)

\* the identifier of a product: the characters after the last "/" of its
\* link, or its name when the link is empty
IdOf(p) ==
    IF p.link = <<>> THEN p.name
    ELSE LET n == Len(p.link)
             cut == CHOOSE c \in 0..n :
                        /\ c = 0 \/ p.link[c] = "/"
                        /\ \A j \in (c + 1)..n : p.link[j] # "/"
         IN SubSeq(p.link, cut + 1, n)

Occurrences(s, x) == Cardinality({i \in 1..Len(s) : s[i] = x})

\* the ascending arrangement of s
SortedOf(s) ==
    IF s = <<>> THEN <<>>
    ELSE CHOOSE t \in [1..Len(s) -> {s[i] : i \in 1..Len(s)}] :
             /\ \A i \in 1..(Len(t) - 1) : t[i] <= t[i + 1]
             /\ \A i \in 1..Len(s) : Occurrences(t, s[i]) = Occurrences(s, s[i])

SnapOf(p) ==
    [name |-> p.name, price |-> p.price, sizes |-> SortedOf(p.sizes), in_stock |-> p.in_stock]

\* the snapshot mapping of a product list: for each identifier, the snapshot
\* of the last product that has it
Expected(ps) ==
    [ k \in {IdOf(ps[i]) : i \in 1..Len(ps)} |->
        SnapOf(ps[CHOOSE j \in 1..Len(ps) :
                     /\ IdOf(ps[j]) = k
                     /\ \A l \in (j + 1)..Len(ps) : IdOf(ps[l]) # k]) ]

\* the state a file stands for when it can be read: its mapping, or the empty
\* mapping when it is missing or not decodable
PriorState(f) == IF f.kind = "valid" THEN f.content ELSE EmptyMap

Absence == [kind |-> "absence", blocks |-> <<>>, markup |-> TRUE]

Channels == [i \in 1..Len(calls) |-> calls[i].channel]

\* should_notify has been called in the cycle (or, in a direct call, returned)
Called == decision.ret # "none"

Dispatching == pc \in {"telegram", "email", "discord"}

----------------------------------------------------------------------------
(* C1 *)

\* a non-empty list whose mapping equals the persisted state: should_notify
\* returns false, writes nothing, and no channel is invoked in the cycle
C1_Unchanged ==
    (Called /\ products # <<>> /\ decision.before = FileOf("valid", Expected(products)))
        => /\ decision.ret = "false"
           /\ decision.wrote = "none"
           /\ file = decision.before
           /\ calls = <<>>
           /\ message = NoMessage
           /\ ~Dispatching

\* C1 as stated: a cycle whose non-empty product list has the persisted
\* state's mapping does not notify, write or dispatch, and the second of two
\* consecutive cycles that find the same products sends nothing
C1_SecondCycleAlwaysSilent ==
    /\ C1_Unchanged
    /\ decision.repeat => decision.ret # "true" /\ calls = <<>> /\ ~Dispatching

\* C1 as amended: a cycle whose non-empty product list has the persisted
\* state's mapping does not notify, write or dispatch; the second of two
\* consecutive cycles that find the same products sends nothing when the
\* first cycle left that mapping persisted (its write, if any, succeeded)
C1_SecondCycleSilentIfPersisted ==
    /\ C1_Unchanged
    /\ (decision.repeat /\ decision.prevKept)
           => decision.ret = "false" /\ calls = <<>> /\ ~Dispatching

C1_Witness ==
    /\ pc = "cycle_end"
    /\ decision.repeat /\ decision.prevKept
    /\ decision.ret = "false"
    /\ \E i \in 1..Len(products) : products[i].sizes # SortedOf(products[i].sizes)

----------------------------------------------------------------------------
(* C2 *)

\* C2: in a cycle with an empty product list should_notify returns true
\* whatever the file holds, the message is the absence message without
\* product blocks, and the three channel methods are invoked with it (the
\* e-mail one with its markup removed)
C2_EmptyCycleNotifies ==
    (Called /\ products = <<>>)
        => /\ decision.ret = "true"
           /\ message = Absence
           /\ \A i \in 1..Len(calls) :
                 calls[i].msg = IF calls[i].channel = "email"
                                THEN [Absence EXCEPT !.markup = FALSE]
                                ELSE Absence
           /\ ~Dispatching => Channels = <<"telegram", "email", "discord">>

C2_Witness ==
    /\ pc = "cycle_end"
    /\ products = <<>>
    /\ Len(calls) = 3
    /\ hist.phase = "gap"
    /\ file.kind = "valid" /\ file.content # EmptyMap
    /\ \E i \in 1..3 : calls[i].outcome = "sent"

----------------------------------------------------------------------------
(* C3 *)

\* C3 as stated: for a non-empty list whose mapping differs from the
\* persisted state should_notify returns true and the file afterwards holds
\* exactly the current mapping
C3_AlwaysReplaced ==
    (Called /\ products # <<>> /\ Expected(products) # PriorState(decision.before))
        => /\ decision.ret = "true"
           /\ file = FileOf("valid", Expected(products))

\* C3 as amended: for a non-empty list and a file that can be read (missing
\* or undecodable: the empty state) whose state differs from the list's
\* mapping, should_notify returns true and attempts the write; when the write
\* succeeds the file holds exactly the current mapping, with no key or field
\* of the previous state left, and when it fails the file does not hold it
C3_ReplacedWhenWritten ==
    (Called /\ products # <<>> /\ decision.before.kind # "unreadable"
            /\ Expected(products) # PriorState(decision.before))
        => /\ decision.ret = "true"
           /\ decision.wrote \in {"ok", "failed"}
           /\ decision.wrote = "ok" => file = FileOf("valid", Expected(products))
           /\ decision.wrote = "failed" => file # FileOf("valid", Expected(products))

C3_Witness ==
    /\ pc = "returned"
    /\ decision.wrote = "ok"
    /\ decision.before.kind = "valid"
    /\ \E k \in DOMAIN decision.before.content : k \notin DOMAIN file.content
    /\ \E i \in 1..Len(products) : products[i].link = <<>>
    /\ file = FileOf("valid", Expected(products))

----------------------------------------------------------------------------
(* C4 *)

\* a term, lower-cased, occurs in the lower-cased name
OccursFolded(term, name) ==
    \E k \in 0..(Len(name) - Len(term)) :
        \A j \in 1..Len(term) : Lower(term[j]) = Lower(name[k + j])

\* C4: matches_search_terms(n) is true exactly when n is not empty and every
\* configured term occurs in n, both taken in lower case
C4_MatchIffAllTerms ==
    pc = "returned" =>
        (mResult <=> (/\ mName # <<>>
                      /\ \A i \in 1..Len(config.search_terms) :
                            OccursFolded(config.search_terms[i], mName)))

C4_Witness ==
    /\ pc = "returned"
    /\ mResult
    /\ Len(config.search_terms) = 2
    /\ config.search_terms[1] # config.search_terms[2]
    /\ \A i \in 1..2 : ~Contains(config.search_terms[i], mName)

----------------------------------------------------------------------------
(* C5 *)

\* C5: every product of the list has in_stock or a size, and a match whose
\* detail record came back empty is not added to the list
C5_OnlyPurchasableRetained ==
    /\ [](\A i \in 1..Len(products) : products[i].in_stock \/ products[i].sizes # <<>>)
    /\ [][(pc = "detailing" /\ detailed_info'.keys = {}) => products' = products]_vars

C5_Witness ==
    /\ pc = "filtering"
    /\ detailed_info.keys = {}
    /\ Len(products) = 1
    /\ cards = <<>>

----------------------------------------------------------------------------
(* C6 *)

\* C6: in a cycle that notifies, the three channel methods are invoked in
\* turn whatever each one's outcome, and nothing they do reaches the
\* handler of the run loop
C6_ChannelsIsolated ==
    /\ pc = "email" => Channels = <<"telegram">>
    /\ pc = "discord" => Channels = <<"telegram", "email">>
    /\ (pc = "cycle_end" /\ decision.ret = "true")
           => Channels = <<"telegram", "email", "discord">>
    /\ pc = "except" => decision.ret = "raise" /\ calls = <<>>
    /\ \A i \in 1..Len(calls) : calls[i].outcome \in {"skipped", "sent", "failed"}

C6_Witness ==
    /\ pc = "cycle_end"
    /\ config.telegram = "disabled"
    /\ Len(calls) = 3
    /\ calls[1].outcome = "skipped"
    /\ calls[2].outcome = "sent"
    /\ calls[3].outcome = "failed"

----------------------------------------------------------------------------
(* C7 *)

\* C7: an exception that leaves a step of the cycle is handled by the loop:
\* in single-run mode the loop ends, otherwise it sleeps the lesser of
\* check_interval and 300 seconds and then starts a new cycle; only an
\* interrupt ends the loop otherwise
C7_ErrorsHandled ==
    [][ /\ (decision'.ret = "raise" /\ decision.ret # "raise") => pc' = "except"
        /\ (pc = "except" /\ pc' # "escaped")
              => IF config.single_run
                 THEN pc' = "done"
                 ELSE /\ pc' = "errsleep"
                      /\ slept' = IF config.check_interval < 300
                                  THEN config.check_interval ELSE 300
        /\ (pc = "errsleep" /\ pc' # "escaped") => pc' = "checking" ]_vars

C7_Witness ==
    /\ pc = "errsleep"
    /\ config.check_interval = 600
    /\ slept = 300
    /\ file.kind = "unreadable"

----------------------------------------------------------------------------
(* C8 *)

\* C8: an interrupt in any state of the loop ends run() through its
\* interrupt handler; it never leaves run() as an exception
C8_InterruptNeverEscapes == pc # "escaped"

----------------------------------------------------------------------------
(* C9 *)

\* C9: whenever the file cannot be loaded (missing, unreadable, corrupt),
\* should_notify on a non-empty list raises nothing, returns true and writes
C9_LoadFailureIsEmptyState ==
    (Called /\ products # <<>> /\ decision.before.kind \in {"missing", "badjson", "unreadable"})
        => /\ decision.ret = "true"
           /\ decision.wrote # "none"

----------------------------------------------------------------------------
(* C10 *)

\* C10: a cycle with an empty product list leaves the file as it was; and
\* when a product set was found and left persisted, one or more empty cycles
\* followed, and the same set is found again, should_notify returns false
\* and nothing is sent
C10_AbsenceKeepsState ==
    /\ (Called /\ products = <<>>) => file = decision.before /\ decision.wrote = "none"
    /\ decision.afterGap
           => decision.ret = "false" /\ calls = <<>> /\ message = NoMessage /\ ~Dispatching

C10_Witness ==
    /\ pc = "cycle_end"
    /\ decision.afterGap
    /\ decision.ret = "false"
    /\ file = FileOf("valid", Expected(products))

====
